---- MODULE Spec2Model ----
(***************************************************************************)
(* Angular ordering of integer points (src/sort_by_argument.rs) and the    *)
(* vector primitives of src/angle_between.rs.                              *)
(*                                                                         *)
(* Integer widths are scaled: a coordinate (i64 in the source) has         *)
(* CoordBits bits and the widened intermediate (i128 in the source) has    *)
(* twice as many, so that the ratio between the two widths, and with it    *)
(* every overflow case of the source, is kept.                             *)
(*                                                                         *)
(* Arithmetic overflow of i128 is build dependent in Rust: a build with    *)
(* overflow checks (the default of debug and test profiles) panics, a      *)
(* build without them (the default release profile) wraps.  The variable   *)
(* overflow_checks is the build's choice.                                  *)
(***************************************************************************)
EXTENDS Integers, Sequences, FiniteSets, TLC

\* ---------------------------------------------------------------- bounds
\* width of a coordinate (stands for the 64 of i64)
CoordBits == 4
\* coordinates with |x| <= Near are sampled
Near == 2
\* coordinates within Edge of the smallest / largest representable value are sampled
Edge == 1
\* longest slice handed to the sort driver (besides the grid of the tests)
MaxLen == 3

\* graphs have at most MaxVertices vertices and MaxEdges directed edges
MaxVertices == 3
MaxEdges == 3

\* grids have at most MaxRows rows and MaxCols columns (besides the one of the tests)
MaxRows == 2
MaxCols == 2
\* the shift of the sentinel of zero_one_bfs (stands for the 60 of 1 << 60)
InfShift == 20

\* strings handed to the Trie have at most MaxStrLen bytes, and at most
\* MaxInserts different ones are inserted
MaxStrLen == 2
MaxInserts == 3

\* vertex weights up to MaxWeight are sampled, besides the largest usize
MaxWeight == 2

\* significant bits of a float (stands for the 53 of f64, next to the 64 of usize)
MantissaBits == 3

\* ------------------------------------------------------- program constants
\* half-width of the grid of tests::matches_reference_sort_using_atan2_for_small_points
GridR == 3
\* the shift of the sentinel of bfs: inf = 1 << 30
BfsInfShift == 30
\* b'a', and the number of children of a Trie node
ByteA == 97
NumChildren == 26

\* ------------------------------------------------------------ integer types
Pow2(n) == 2 ^ n

I64_MIN == -Pow2(CoordBits - 1)
I64_MAX == Pow2(CoordBits - 1) - 1
I128_MIN == -Pow2(2 * CoordBits - 1)
I128_MAX == Pow2(2 * CoordBits - 1) - 1

Abs(x) == IF x < 0 THEN -x ELSE x

SetMin(S) == CHOOSE x \in S : \A y \in S : x <= y

\* the sampled i64 values: around zero and at both ends of the type
Coords == {x \in I64_MIN..I64_MAX :
              \/ Abs(x) <= Near
              \/ x <= I64_MIN + Edge
              \/ x >= I64_MAX - Edge}

Points == Coords \X Coords

OriginPolicy == {"First", "Last", "Forbid"}
TieBreak == {"Norm2Asc", "Lex"}
ArgSortOptions == [origin : OriginPolicy, tie : TieBreak]
ArgSortOptions_default == [origin |-> "Last", tie |-> "Norm2Asc"]

Origin == <<0, 0>>

Ordering == {"Less", "Equal", "Greater"}
Panics == {"PanicOrigin", "PanicOverflow"}

VARIABLES
    a, b,              \* the two points of a comparator / primitive call
    opt,               \* the ArgSortOptions of the call
    overflow_checks,   \* TRUE: the build panics on i128 overflow, FALSE: it wraps
    pc,                \* "call" before the operation, then the operation that ran
    res,               \* result of a call: an Ordering, a panic, "None", or [panicked, val]
    wide,              \* result of cross / dot: [panicked, val]
    input,             \* the slice as handed to the sort driver
    pts,               \* the slice the sort driver works on
    to_xy,             \* the projection handed to the sort driver
    angle              \* result of angle_between: what it returned or handed to atan2

VARIABLES
    graph,             \* bfs / dijkstra: the adjacency lists, graph[v + 1] those of vertex v
    field,             \* zero_one_bfs: the rows of the grid
    start,             \* the start vertex (bfs: s) or the start cell
    dist,              \* the distance table the search fills and returns
    que,               \* bfs: the VecDeque of vertices
    pq,                \* dijkstra: the Nodes in the BinaryHeap, in push order
    deque,             \* zero_one_bfs: the VecDeque of cells
    enq,               \* bfs: how often each vertex was pushed (history)
    trie,              \* the Trie: its nodes by their path from the root
    inserted,          \* the strings handed to insert so far (history)
    query,             \* the argument of the last contains / starts_with call
    found              \* what that call returned

VARIABLES
    next_nodes,        \* doubling: the successor of vertex v is next_nodes[v + 1]
    node0,             \* doubling: node, the vertex the walk starts from
    k_steps,           \* doubling: k, the number of steps
    weight,            \* find_centroid: weight[v + 1] is the weight of vertex v
    nn,                \* sum_quotients: n as u128
    b_cur              \* sum_quotients: b, the left end of the current block

geomVars == <<a, b, opt, wide, input, pts, to_xy, angle>>
searchVars == <<graph, field, start, dist, que, pq, deque, enq>>
trieVars == <<trie, inserted, query, found>>
numVars == <<next_nodes, node0, k_steps, weight, nn, b_cur>>

vars == <<a, b, opt, overflow_checks, pc, res, wide, input, pts, to_xy, angle,
          searchVars, trieVars, numVars>>

\* ------------------------------------------------------- i128 arithmetic
WideOk(v) == [panicked |-> FALSE, val |-> v]
WidePanic == [panicked |-> TRUE, val |-> 0]
NoWide == [panicked |-> FALSE, val |-> 0]

InI128(m) == m >= I128_MIN /\ m <= I128_MAX

\* two's complement wrap of a mathematical value into i128
Wrap128(m) == ((m - I128_MIN) % Pow2(2 * CoordBits)) + I128_MIN

\* the outcome of an i128 operation whose mathematical result is m
OverflowArith(m) ==
    IF InI128(m) THEN WideOk(m)
    ELSE IF overflow_checks THEN WidePanic
    ELSE WideOk(Wrap128(m))

\* p op q on two i128 operands that may themselves have panicked
WideSub(p, q) ==
    IF p.panicked \/ q.panicked THEN WidePanic ELSE OverflowArith(p.val - q.val)

WideAdd(p, q) ==
    IF p.panicked \/ q.panicked THEN WidePanic ELSE OverflowArith(p.val + q.val)

\* (x as i128) * (y as i128)
WideMul(x, y) == OverflowArith(x * y)

\* ------------------------------------------------- src/sort_by_argument.rs
\* the split without its boundary clause: the positive x-axis falls into the
\* lower half
upper_half_without_axis(x, y) == y > 0

upper_half(x, y) == y > 0 \/ (y = 0 /\ x >= 0)

\* the cross product with its two terms exchanged
cross_swapped(ax, ay, bx, by) == WideSub(WideMul(ay, bx), WideMul(ax, by))

cross(ax, ay, bx, by) == WideSub(WideMul(ax, by), WideMul(ay, bx))

norm2(x, y) == WideAdd(WideMul(x, x), WideMul(y, y))

\* bool::cmp with true < false
bool_cmp_true_first(p, q) ==
    IF p = q THEN "Equal" ELSE IF q THEN "Greater" ELSE "Less"

\* bool::cmp, false < true
bool_cmp(p, q) ==
    IF p = q THEN "Equal" ELSE IF q THEN "Less" ELSE "Greater"

\* i128::cmp / i64::cmp
int_cmp(m, n) ==
    IF m < n THEN "Less" ELSE IF m > n THEN "Greater" ELSE "Equal"

\* (i64, i64)::cmp, lexicographic
\* (ax, ay).cmp(&(bx, by)) with y compared before x
tuple_cmp_y_first(p, q) ==
    IF p[2] # q[2] THEN int_cmp(p[2], q[2]) ELSE int_cmp(p[1], q[1])

tuple_cmp(p, q) ==
    IF p[1] # q[1] THEN int_cmp(p[1], q[1]) ELSE int_cmp(p[2], q[2])

cmp_by_argument_i64(pa, pb, o) ==
    LET ax == pa[1]
        ay == pa[2]
        bx == pb[1]
        by == pb[2]
        a0 == ax = 0 /\ ay = 0
        b0 == bx = 0 /\ by = 0
        ha == upper_half(ax, ay)
        hb == upper_half(bx, by)
        cr == cross(ax, ay, bx, by)
        na == norm2(ax, ay)
        nb == norm2(bx, by)
    IN  IF a0 \/ b0
        THEN CASE o.origin = "First" -> bool_cmp(b0, a0)
               [] o.origin = "Last" -> bool_cmp(a0, b0)
               [] o.origin = "Forbid" -> "PanicOrigin"
        ELSE IF ha # hb THEN bool_cmp(hb, ha)
        ELSE IF cr.panicked THEN "PanicOverflow"
        ELSE IF cr.val # 0
             THEN IF cr.val > 0 THEN "Less" ELSE "Greater"
        ELSE CASE o.tie = "Norm2Asc" ->
                    IF na.panicked \/ nb.panicked THEN "PanicOverflow"
                    ELSE int_cmp(na.val, nb.val)
               [] o.tie = "Lex" -> tuple_cmp(pa, pb)

cmp_by_argument_default_i64(pa, pb) ==
    cmp_by_argument_i64(pa, pb, ArgSortOptions_default)

\* the outcome of sorting a slice: the slice afterwards and the panic that
\* unwound the sort ("None" when it returned)
SortOk(s) == [panic |-> "None", v |-> s]

\* slice::sort_by on a short slice is a stable insertion sort: insert_tail
\* scans the sorted prefix s from its right end and moves the new element x
\* left past every element it is Less than; the scan stops at the first
\* element for which the comparison is not Less.  A comparison that panics
\* unwinds, and x is left where the scan stood.
\* insert_tail with a shift that loses the element next to the hole: the new
\* element is written over it
insert_tail_overwriting(s, x, f, o) ==
    LET stops == {k \in 1..Len(s) : cmp_by_argument_i64(f[x], f[s[k]], o) # "Less"}
        at == IF stops = {} THEN 0
              ELSE CHOOSE k \in stops : \A m \in stops : m <= k
        c == IF at = 0 THEN "None" ELSE cmp_by_argument_i64(f[x], f[s[at]], o)
    IN  [panic |-> IF c \in Panics THEN c ELSE "None",
         v |-> IF at = Len(s) THEN Append(s, x)
               ELSE SubSeq(s, 1, at) \o <<x, x>> \o SubSeq(s, at + 2, Len(s))]

insert_tail(s, x, f, o) ==
    LET stops == {k \in 1..Len(s) : cmp_by_argument_i64(f[x], f[s[k]], o) # "Less"}
        at == IF stops = {} THEN 0
              ELSE CHOOSE k \in stops : \A m \in stops : m <= k
        c == IF at = 0 THEN "None" ELSE cmp_by_argument_i64(f[x], f[s[at]], o)
    IN  [panic |-> IF c \in Panics THEN c ELSE "None",
         v |-> SubSeq(s, 1, at) \o <<x>> \o SubSeq(s, at + 1, Len(s))]

\* the slice after the first n elements went through insert_tail
RECURSIVE insertion_sort(_, _, _, _)
insertion_sort(s, n, f, o) ==
    IF n <= 1 THEN SortOk(s)
    ELSE LET r == insertion_sort(s, n - 1, f, o)
         IN  IF r.panic # "None" THEN r
             ELSE LET t == insert_tail(SubSeq(r.v, 1, n - 1), r.v[n], f, o)
                  IN  [panic |-> t.panic,
                       v |-> t.v \o SubSeq(r.v, n + 1, Len(r.v))]

\* pts.sort_by(|p, q| cmp_by_argument_i64(to_xy(p), to_xy(q), opt)); the
\* projection f is a function from the elements to their coordinates
sort_by_argument_i64(s, f, o) == insertion_sort(s, Len(s), f, o)

sort_by_argument_default_i64(s, f) ==
    sort_by_argument_i64(s, f, ArgSortOptions_default)

\* --------------------------------------------------- src/angle_between.rs
angle_cross(ax, ay, bx, by) == WideSub(WideMul(ax, by), WideMul(ay, bx))

dot(ax, ay, bx, by) == WideAdd(WideMul(ax, bx), WideMul(ay, by))

\* i128::abs, which overflows on the smallest value of the type
WideAbs(p) == IF p.panicked THEN WidePanic ELSE OverflowArith(Abs(p.val))

\* the outcomes of angle_between: the literal 0.0 of the early return, the
\* value of (y as f64).atan2(x as f64) for the two i128 values y and x, or a
\* panic
NoAngle == [kind |-> "none", y |-> 0, x |-> 0]
AngleZero == [kind |-> "zero", y |-> 0, x |-> 0]
AnglePanic == [kind |-> "panic", y |-> 0, x |-> 0]
Atan2(y, x) == [kind |-> "atan2", y |-> y, x |-> x]

\* the early return with && in place of ||
angle_between_both_zero(pa, pb) ==
    IF pa = Origin /\ pb = Origin THEN AngleZero
    ELSE LET cr == WideAbs(angle_cross(pa[1], pa[2], pb[1], pb[2]))
             dt == dot(pa[1], pa[2], pb[1], pb[2])
         IN  IF cr.panicked \/ dt.panicked THEN AnglePanic
             ELSE Atan2(cr.val, dt.val)

\* the cross product handed to atan2 without .abs()
angle_between_signed(pa, pb) ==
    IF pa = Origin \/ pb = Origin THEN AngleZero
    ELSE LET cr == angle_cross(pa[1], pa[2], pb[1], pb[2])
             dt == dot(pa[1], pa[2], pb[1], pb[2])
         IN  IF cr.panicked \/ dt.panicked THEN AnglePanic
             ELSE Atan2(cr.val, dt.val)

angle_between(pa, pb) ==
    IF pa = Origin \/ pb = Origin THEN AngleZero
    ELSE LET cr == WideAbs(angle_cross(pa[1], pa[2], pb[1], pb[2]))
             dt == dot(pa[1], pa[2], pb[1], pb[2])
         IN  IF cr.panicked \/ dt.panicked THEN AnglePanic
             ELSE Atan2(cr.val, dt.val)

\* ------------------------------------------- comparator and primitive calls
\* the variables of the operations a specification does not run
SearchIdle ==
    /\ graph = << >>
    /\ field = << >>
    /\ start = 0
    /\ dist = << >>
    /\ que = << >>
    /\ pq = << >>
    /\ deque = << >>
    /\ enq = << >>

NumIdle ==
    /\ next_nodes = << >>
    /\ node0 = 0
    /\ k_steps = 0
    /\ weight = << >>
    /\ nn = 0
    /\ b_cur = 0

TrieIdle ==
    /\ trie = << >>
    /\ inserted = {}
    /\ query = << >>
    /\ found = FALSE

GeomIdle ==
    /\ a = Origin
    /\ b = Origin
    /\ opt = ArgSortOptions_default
    /\ wide = NoWide
    /\ input = << >>
    /\ pts = << >>
    /\ to_xy = "deref"
    /\ angle = NoAngle

Init ==
    /\ SearchIdle
    /\ TrieIdle
    /\ NumIdle
    /\ a \in Points
    /\ b \in Points
    /\ opt \in ArgSortOptions
    /\ overflow_checks \in BOOLEAN
    /\ pc = "call"
    /\ res = "None"
    /\ wide = NoWide
    /\ input = << >>
    /\ pts = << >>
    /\ to_xy = "deref"
    /\ angle = NoAngle

Compare ==
    /\ pc = "call"
    /\ res' = cmp_by_argument_i64(a, b, opt)
    /\ pc' = "cmp"
    /\ UNCHANGED <<numVars, a, b, opt, overflow_checks, wide, input, pts, to_xy, angle, searchVars, trieVars>>

CompareDefault ==
    /\ pc = "call"
    /\ res' = cmp_by_argument_default_i64(a, b)
    /\ pc' = "cmp_default"
    /\ UNCHANGED <<numVars, a, b, opt, overflow_checks, wide, input, pts, to_xy, angle, searchVars, trieVars>>

Cross ==
    /\ pc = "call"
    /\ wide' = cross(a[1], a[2], b[1], b[2])
    /\ pc' = "cross"
    /\ UNCHANGED <<numVars, a, b, opt, overflow_checks, res, input, pts, to_xy, angle, searchVars, trieVars>>

AngleCross ==
    /\ pc = "call"
    /\ wide' = angle_cross(a[1], a[2], b[1], b[2])
    /\ pc' = "angle_cross"
    /\ UNCHANGED <<numVars, a, b, opt, overflow_checks, res, input, pts, to_xy, angle, searchVars, trieVars>>

Dot ==
    /\ pc = "call"
    /\ wide' = dot(a[1], a[2], b[1], b[2])
    /\ pc' = "dot"
    /\ UNCHANGED <<numVars, a, b, opt, overflow_checks, res, input, pts, to_xy, angle, searchVars, trieVars>>

AngleBetween ==
    /\ pc = "call"
    /\ angle' = angle_between(a, b)
    /\ pc' = "angle"
    /\ UNCHANGED <<numVars, a, b, opt, overflow_checks, res, wide, input, pts, to_xy, searchVars, trieVars>>

Next == Compare \/ CompareDefault \/ Cross \/ AngleCross \/ Dot \/ AngleBetween

Spec == Init /\ [][Next]_vars

\* --------------------------------------------------------- the sort driver
\* the points of tests::matches_reference_sort_using_atan2_for_small_points,
\* in the order the test's two loops push them
GridAll == [i \in 1..((2 * GridR + 1) * (2 * GridR + 1)) |->
               <<((i - 1) \div (2 * GridR + 1)) - GridR,
                 ((i - 1) % (2 * GridR + 1)) - GridR>>]

NotOrigin(p) == p # Origin

GridPts == SelectSeq(GridAll, NotOrigin)

\* the points short slices are made of: the origin, its neighbours and the
\* points with the smallest coordinate of the type
SortPoints == {p \in Points : \A i \in 1..2 : p[i] = I64_MIN \/ Abs(p[i]) <= 1}

\* struct P { x, y } of tests::generic_sort_works_for_custom_type, with a
\* label that tells apart two elements of the same coordinates
P(x, y, label) == [x |-> x, y |-> y, label |-> label]

StructPoints == {<<1, 0>>, <<-1, 0>>, Origin, <<I64_MIN, I64_MIN>>}

PStructs == {P(p[1], p[2], l) : p \in StructPoints, l \in 1..2}

\* the slice of tests::generic_sort_works_for_custom_type
TestPs == <<P(0, -1, 1), P(1, 0, 1), P(0, 1, 1), P(-1, 0, 1)>>

\* the closures handed over as to_xy: |p| *p on coordinate pairs and
\* |p| (p.x, p.y) on P
deref == [p \in Points \cup {GridAll[i] : i \in DOMAIN GridAll} |-> p]

fields == [e \in PStructs \cup {TestPs[i] : i \in DOMAIN TestPs} |-> <<e.x, e.y>>]

Projection(name) == IF name = "deref" THEN deref ELSE fields

SeqsUpTo(S, n) == UNION {[1..m -> S] : m \in 0..n}

InitSort ==
    /\ SearchIdle
    /\ TrieIdle
    /\ NumIdle
    /\ \/ /\ to_xy = "deref"
          /\ input \in SeqsUpTo(SortPoints, MaxLen) \cup {GridPts}
       \/ /\ to_xy = "fields"
          /\ input \in SeqsUpTo(PStructs, MaxLen) \cup {TestPs}
    /\ pts = input
    /\ opt \in ArgSortOptions
    /\ overflow_checks \in BOOLEAN
    /\ pc = "call"
    /\ res = "None"
    /\ wide = NoWide
    /\ a = Origin
    /\ b = Origin
    /\ angle = NoAngle

SortByArgument ==
    /\ pc = "call"
    /\ LET r == sort_by_argument_i64(pts, Projection(to_xy), opt)
       IN  /\ pts' = r.v
           /\ res' = IF r.panic = "None" THEN "Unit" ELSE r.panic
    /\ pc' = "sorted"
    /\ UNCHANGED <<numVars, a, b, opt, overflow_checks, wide, input, to_xy, angle, searchVars, trieVars>>

\* the driver with ArgSortOptions::default(): opt is what the call uses
SortByArgumentDefault ==
    /\ pc = "call"
    /\ opt = ArgSortOptions_default
    /\ LET r == sort_by_argument_default_i64(pts, Projection(to_xy))
       IN  /\ pts' = r.v
           /\ res' = IF r.panic = "None" THEN "Unit" ELSE r.panic
    /\ pc' = "sorted_default"
    /\ UNCHANGED <<numVars, a, b, opt, overflow_checks, wide, input, to_xy, angle, searchVars, trieVars>>

NextSort == SortByArgument \/ SortByArgumentDefault

SpecSort == InitSort /\ [][NextSort]_vars

\* ------------------------------------------------------------- src/bfs.rs
\* vertices and indices count from 0 as in the code, sequences from 1
At(seq, i) == seq[i + 1]

Put(seq, i, x) == [seq EXCEPT ![i + 1] = x]

VerticesOf(g) == 0..(Len(g) - 1)

\* line 5: inf = 1 << 30
bfs_inf == Pow2(BfsInfShift)

\* lines 15-21 with dist[v] = dist[u]: the increment forgotten
RECURSIVE bfs_scan_no_increment(_, _, _, _)
bfs_scan_no_increment(adj, i, u, st) ==
    IF i > Len(adj) THEN st
    ELSE LET v == adj[i]
         IN  IF At(st.dist, v) # bfs_inf
             THEN bfs_scan_no_increment(adj, i + 1, u, st)
             ELSE bfs_scan_no_increment(adj, i + 1, u,
                      [dist |-> Put(st.dist, v, At(st.dist, u)),
                       que |-> Append(st.que, v),
                       enq |-> Put(st.enq, v, At(st.enq, v) + 1)])

\* lines 15-21: the for loop over graph[u], from its i-th entry on
RECURSIVE bfs_scan(_, _, _, _)
bfs_scan(adj, i, u, st) ==
    IF i > Len(adj) THEN st
    ELSE LET v == adj[i]
         IN  IF At(st.dist, v) # bfs_inf
             THEN bfs_scan(adj, i + 1, u, st)
             ELSE bfs_scan(adj, i + 1, u,
                      [dist |-> Put(st.dist, v, At(st.dist, u) + 1),
                       que |-> Append(st.que, v),
                       enq |-> Put(st.enq, v, At(st.enq, v) + 1)])

\* the adjacency lists a list of directed edges <<u, v>> gives
AdjacencyOf(edges, u) ==
    LET es == SelectSeq(edges, LAMBDA e : e[1] = u)
    IN  [i \in 1..Len(es) |-> es[i][2]]

GraphOf(n, edges) == [k \in 1..n |-> AdjacencyOf(edges, k - 1)]

\* the graphs of n vertices
Graphs(n) ==
    {GraphOf(n, es) : es \in SeqsUpTo((0..(n - 1)) \X (0..(n - 1)), MaxEdges)}

\* tests::create_graph and the graph of tests::test_bfs_disconnected_graph
create_graph == <<<<1, 2>>, <<0, 3, 4>>, <<0, 5, 6>>, <<1>>, <<1>>, <<2>>, <<2>>>>

disconnected_graph == <<<<1>>, <<0>>, <<3>>, <<2>>>>

InitBfs ==
    /\ GeomIdle
    /\ TrieIdle
    /\ NumIdle
    /\ overflow_checks = TRUE
    /\ pc = "call"
    /\ res = "None"
    /\ \/ \E n \in 1..MaxVertices : graph \in Graphs(n)
       \/ graph \in {create_graph, disconnected_graph}
    /\ start \in VerticesOf(graph)
    /\ field = << >>
    /\ dist = << >>
    /\ que = << >>
    /\ pq = << >>
    /\ deque = << >>
    /\ enq = [k \in 1..Len(graph) |-> 0]

\* lines 5-12
BfsEnter ==
    /\ pc = "call"
    /\ dist' = Put([k \in 1..Len(graph) |-> bfs_inf], start, 0)
    /\ que' = <<start>>
    /\ enq' = Put(enq, start, 1)
    /\ pc' = "bfs_loop"
    /\ UNCHANGED <<numVars, geomVars, trieVars, overflow_checks, res, graph, field, start, pq, deque>>

\* lines 14-22: one iteration of the while loop
BfsVisit ==
    /\ pc = "bfs_loop"
    /\ que # << >>
    /\ LET u == Head(que)
           st == bfs_scan(At(graph, u), 1, u,
                          [dist |-> dist, que |-> Tail(que), enq |-> enq])
       IN  /\ dist' = st.dist
           /\ que' = st.que
           /\ enq' = st.enq
    /\ UNCHANGED <<numVars, geomVars, trieVars, overflow_checks, pc, res, graph, field, start, pq, deque>>

\* lines 14 and 23: pop_front gives None, dist is returned
BfsReturn ==
    /\ pc = "bfs_loop"
    /\ que = << >>
    /\ pc' = "bfs_returned"
    /\ UNCHANGED <<numVars, geomVars, searchVars, trieVars, overflow_checks, res>>

NextBfs == BfsEnter \/ BfsVisit \/ BfsReturn

SpecBfs == InitBfs /\ [][NextBfs]_vars

\* the call runs on: a loop iteration that can be taken is taken
FairBfs == SpecBfs /\ WF_vars(NextBfs)

\* -------------------------------------------------------- src/dijkstra.rs
\* usize, as wide as a coordinate
USIZE_MAX == Pow2(CoordBits) - 1

\* x + y on usize: overflow panics or wraps, as the build decides
UsizeAdd(x, y) ==
    IF x + y <= USIZE_MAX THEN WideOk(x + y)
    ELSE IF overflow_checks THEN WidePanic
    ELSE WideOk((x + y) % Pow2(CoordBits))

Node(vertex, cost) == [vertex |-> vertex, cost |-> cost]

\* lines 10-15, Ord for Node: the costs compared the other way round
Node_cmp(self, other) == int_cmp(other.cost, self.cost)

\* BinaryHeap::pop hands out a greatest Node: which one of several is the heap's choice
Greatest(heap) ==
    {i \in 1..Len(heap) : \A j \in 1..Len(heap) : Node_cmp(heap[i], heap[j]) # "Less"}

RemoveAt(seq, i) == SubSeq(seq, 1, i - 1) \o SubSeq(seq, i + 1, Len(seq))

\* lines 43-52: the for loop over graph[vertex], from its i-th entry on
RECURSIVE dijkstra_scan(_, _, _, _)
dijkstra_scan(adj, i, cost, st) ==
    IF i > Len(adj) \/ st.panicked THEN st
    ELSE LET next_vertex == adj[i][1]
             edge_cost == adj[i][2]
             new_cost == UsizeAdd(cost, edge_cost)
         IN  IF new_cost.panicked THEN [st EXCEPT !.panicked = TRUE]
             ELSE IF new_cost.val < At(st.dist, next_vertex)
             THEN dijkstra_scan(adj, i + 1, cost,
                      [st EXCEPT !.dist = Put(st.dist, next_vertex, new_cost.val),
                                 !.pq = Append(st.pq, Node(next_vertex, new_cost.val))])
             ELSE dijkstra_scan(adj, i + 1, cost, st)

\* the edge costs sampled: none, small, and the largest usize
Costs == {0, 1, USIZE_MAX}

\* the adjacency lists a list of directed edges <<u, v, cost>> gives
WeightedAdjacencyOf(edges, u) ==
    LET es == SelectSeq(edges, LAMBDA e : e[1] = u)
    IN  [i \in 1..Len(es) |-> <<es[i][2], es[i][3]>>]

WeightedGraphOf(n, edges) == [k \in 1..n |-> WeightedAdjacencyOf(edges, k - 1)]

\* the weighted graphs of n vertices
WeightedGraphs(n) ==
    {WeightedGraphOf(n, es) :
        es \in SeqsUpTo((0..(n - 1)) \X (0..(n - 1)) \X Costs, MaxEdges)}

\* the graph of tests::test_dijkstra
test_dijkstra_graph ==
    <<<<<<1, 2>>, <<2, 5>>>>, <<<<0, 2>>, <<3, 3>>>>,
      <<<<0, 5>>, <<3, 1>>>>, <<<<1, 3>>, <<2, 1>>>>>>

InitDijkstra ==
    /\ GeomIdle
    /\ TrieIdle
    /\ NumIdle
    /\ overflow_checks \in BOOLEAN
    /\ pc = "call"
    /\ res = "None"
    /\ \/ \E n \in 1..MaxVertices : graph \in WeightedGraphs(n)
       \/ graph = test_dijkstra_graph
    /\ start \in VerticesOf(graph)
    /\ field = << >>
    /\ dist = << >>
    /\ que = << >>
    /\ pq = << >>
    /\ deque = << >>
    /\ enq = << >>

\* lines 28-36
DijkstraEnter ==
    /\ pc = "call"
    /\ dist' = Put([k \in 1..Len(graph) |-> USIZE_MAX], start, 0)
    /\ pq' = <<Node(start, 0)>>
    /\ pc' = "dijkstra_loop"
    /\ UNCHANGED <<numVars, geomVars, trieVars, overflow_checks, res, graph, field, start, que, deque, enq>>

\* lines 38-53: one iteration of the while loop
DijkstraVisit ==
    /\ pc = "dijkstra_loop"
    /\ \E i \in Greatest(pq) :
          LET vertex == pq[i].vertex
              cost == pq[i].cost
              popped == [dist |-> dist, pq |-> RemoveAt(pq, i), panicked |-> FALSE]
              st == IF At(dist, vertex) < cost THEN popped
                    ELSE dijkstra_scan(At(graph, vertex), 1, cost, popped)
          IN  /\ dist' = st.dist
              /\ pq' = st.pq
              /\ pc' = IF st.panicked THEN "dijkstra_panicked" ELSE pc
              /\ res' = IF st.panicked THEN "PanicOverflow" ELSE res
    /\ UNCHANGED <<numVars, geomVars, trieVars, overflow_checks, graph, field, start, que, deque, enq>>

\* lines 38 and 55: pop gives None, dist is returned
DijkstraReturn ==
    /\ pc = "dijkstra_loop"
    /\ pq = << >>
    /\ pc' = "dijkstra_returned"
    /\ UNCHANGED <<numVars, geomVars, searchVars, trieVars, overflow_checks, res>>

NextDijkstra == DijkstraEnter \/ DijkstraVisit \/ DijkstraReturn

SpecDijkstra == InitDijkstra /\ [][NextDijkstra]_vars

\* the call runs on: a loop iteration that can be taken is taken
FairDijkstra == SpecDijkstra /\ WF_vars(NextDijkstra)

\* ---------------------------------------------------- src/zero_one_bfs.rs
\* line 11: inf = 1 << 60, scaled
zero_one_inf == Pow2(InfShift)

\* lines 15-16
dx == <<1, 0, -1, 0>>
dy == <<0, 1, 0, -1>>

\* the h and w handed to the call: the size of field
h == Len(field)
w == Len(field[1])

Cell(rows, x, y) == rows[x + 1][y + 1]

PutCell(rows, x, y, v) == [rows EXCEPT ![x + 1][y + 1] = v]

\* lines 22-44 with the test of line 33 turned round: '#' cells cost nothing
RECURSIVE zero_one_scan_inverted(_, _, _, _)
zero_one_scan_inverted(dir, x, y, st) ==
    IF dir > 4 THEN st
    ELSE LET nx == x + dx[dir]
             ny == y + dy[dir]
         IN  IF nx < 0 \/ h <= nx \/ ny < 0 \/ w <= ny
             THEN zero_one_scan_inverted(dir + 1, x, y, st)
             ELSE IF Cell(field, nx, ny) = "#"
             THEN IF Cell(st.dist, nx, ny) > Cell(st.dist, x, y)
                  THEN zero_one_scan_inverted(dir + 1, x, y,
                           [dist |-> PutCell(st.dist, nx, ny, Cell(st.dist, x, y)),
                            deque |-> <<<<nx, ny>>>> \o st.deque])
                  ELSE zero_one_scan_inverted(dir + 1, x, y, st)
             ELSE IF Cell(st.dist, nx, ny) > Cell(st.dist, x, y) + 1
                  THEN zero_one_scan_inverted(dir + 1, x, y,
                           [dist |-> PutCell(st.dist, nx, ny, Cell(st.dist, x, y) + 1),
                            deque |-> Append(st.deque, <<nx, ny>>)])
                  ELSE zero_one_scan_inverted(dir + 1, x, y, st)

\* lines 22-44: the for loop over the four directions, from dir on
RECURSIVE zero_one_scan(_, _, _, _)
zero_one_scan(dir, x, y, st) ==
    IF dir > 4 THEN st
    ELSE LET nx == x + dx[dir]
             ny == y + dy[dir]
         IN  IF nx < 0 \/ h <= nx \/ ny < 0 \/ w <= ny
             THEN zero_one_scan(dir + 1, x, y, st)
             ELSE IF Cell(field, nx, ny) # "#"
             THEN IF Cell(st.dist, nx, ny) > Cell(st.dist, x, y)
                  THEN zero_one_scan(dir + 1, x, y,
                           [dist |-> PutCell(st.dist, nx, ny, Cell(st.dist, x, y)),
                            deque |-> <<<<nx, ny>>>> \o st.deque])
                  ELSE zero_one_scan(dir + 1, x, y, st)
             ELSE IF Cell(st.dist, nx, ny) > Cell(st.dist, x, y) + 1
                  THEN zero_one_scan(dir + 1, x, y,
                           [dist |-> PutCell(st.dist, nx, ny, Cell(st.dist, x, y) + 1),
                            deque |-> Append(st.deque, <<nx, ny>>)])
                  ELSE zero_one_scan(dir + 1, x, y, st)

Fields ==
    UNION {[1..r -> [1..c -> {".", "#"}]] : r \in 1..MaxRows, c \in 1..MaxCols}

\* the field of tests::test_zero_one_bfs
test_field ==
    << <<".", ".", ".", ".", ".", ".">>,
       <<"#", "#", "#", ".", ".", ".">>,
       <<"#", "#", "#", ".", ".", ".">>,
       <<"#", "#", "#", "#", "#", "#">>,
       <<".", ".", ".", "#", "#", "#">>,
       <<".", ".", "#", "#", "#", "#">> >>

InitZeroOne ==
    /\ GeomIdle
    /\ TrieIdle
    /\ NumIdle
    /\ overflow_checks = TRUE
    /\ pc = "call"
    /\ res = "None"
    /\ field \in Fields \cup {test_field}
    /\ start \in (0..(h - 1)) \X (0..(w - 1))
    /\ graph = << >>
    /\ dist = << >>
    /\ que = << >>
    /\ pq = << >>
    /\ deque = << >>
    /\ enq = << >>

\* lines 11-19
ZeroOneEnter ==
    /\ pc = "call"
    /\ dist' = PutCell([r \in 1..h |-> [c \in 1..w |-> zero_one_inf]],
                       start[1], start[2], 0)
    /\ deque' = <<start>>
    /\ pc' = "zero_one_loop"
    /\ UNCHANGED <<numVars, geomVars, trieVars, overflow_checks, res, graph, field, start, que, pq, enq>>

\* lines 21-45: one iteration of the while loop
ZeroOneVisit ==
    /\ pc = "zero_one_loop"
    /\ deque # << >>
    /\ LET st == zero_one_scan(1, Head(deque)[1], Head(deque)[2],
                               [dist |-> dist, deque |-> Tail(deque)])
       IN  /\ dist' = st.dist
           /\ deque' = st.deque
    /\ UNCHANGED <<numVars, geomVars, trieVars, overflow_checks, pc, res, graph, field, start, que, pq, enq>>

\* lines 21 and 47: pop_front gives None, dist is returned
ZeroOneReturn ==
    /\ pc = "zero_one_loop"
    /\ deque = << >>
    /\ pc' = "zero_one_returned"
    /\ UNCHANGED <<numVars, geomVars, searchVars, trieVars, overflow_checks, res>>

NextZeroOne == ZeroOneEnter \/ ZeroOneVisit \/ ZeroOneReturn

SpecZeroOne == InitZeroOne /\ [][NextZeroOne]_vars

\* the call runs on: a loop iteration that can be taken is taken
FairZeroOne == SpecZeroOne /\ WF_vars(NextZeroOne)

\* ------------------------------------------------------------ src/trie.rs
\* a node is named by the child indices on the way from the root to it:
\* trie[path] is that node, and children holds the indices i with
\* node.children[i] = Some

\* b'z': the byte of the last letter a node has a child for
ByteZ == ByteA + NumChildren - 1

\* lines 13-18
Trie_new == [children |-> {}, is_end |-> FALSE]

\* lines 23, 32, 44: (b - b'a') as usize
ChildIndex(byte) == byte - ByteA

\* the node the first k bytes of str lead to
PathOf(str, k) == [j \in 1..k |-> ChildIndex(str[j])]

\* lines 21-25: the walk of insert from byte k on; get_or_insert_with makes
\* the child that is not there
RECURSIVE insert_walk(_, _, _)
insert_walk(t, str, k) ==
    IF k > Len(str) THEN t
    ELSE LET node == PathOf(str, k - 1)
             i == ChildIndex(str[k])
         IN  IF i \in t[node].children
             THEN insert_walk(t, str, k + 1)
             ELSE insert_walk(
                      [t EXCEPT ![node].children = @ \cup {i}]
                          @@ (PathOf(str, k) :> Trie_new),
                      str, k + 1)

\* lines 20-27
insert(t, str) ==
    [insert_walk(t, str, 1) EXCEPT ![PathOf(str, Len(str))].is_end = TRUE]

\* lines 31-37 and 43-49: the walk from byte k on; gives the first byte whose
\* child is missing, Len(str) + 1 when the walk reaches the end
RECURSIVE walk(_, _, _)
walk(t, str, k) ==
    IF k > Len(str) THEN k
    ELSE IF ChildIndex(str[k]) \in t[PathOf(str, k - 1)].children
    THEN walk(t, str, k + 1)
    ELSE k

WalkStop(t, str) == walk(t, str, 1)

\* lines 29-39 answering true at the end of the walk, as starts_with does
contains_ignoring_end(t, str) ==
    IF WalkStop(t, str) <= Len(str) THEN FALSE
    ELSE TRUE

\* lines 29-39
contains(t, str) ==
    IF WalkStop(t, str) <= Len(str) THEN FALSE
    ELSE t[PathOf(str, Len(str))].is_end

\* lines 41-51 answering is_end at the end of the walk, as contains does
starts_with_checking_end(t, prefix) ==
    IF WalkStop(t, prefix) <= Len(prefix) THEN FALSE
    ELSE t[PathOf(prefix, Len(prefix))].is_end

\* lines 41-51
starts_with(t, prefix) ==
    IF WalkStop(t, prefix) <= Len(prefix) THEN FALSE
    ELSE TRUE

\* the strings handed to the Trie: over 'a' and 'z', the first and the last
\* letter the children array has a slot for
TrieStrings == SeqsUpTo({ByteA, ByteZ}, MaxStrLen)

InitTrie ==
    /\ GeomIdle
    /\ SearchIdle
    /\ NumIdle
    /\ overflow_checks = TRUE
    /\ pc = "new"
    /\ res = "None"
    /\ trie = (<< >> :> Trie_new)
    /\ inserted = {}
    /\ query = << >>
    /\ found = FALSE

\* lines 20-27; query and found forget the call answered before
Insert(str) ==
    /\ Cardinality(inserted \cup {str}) <= MaxInserts
    /\ trie' = insert(trie, str)
    /\ inserted' = inserted \cup {str}
    /\ query' = << >>
    /\ found' = FALSE
    /\ pc' = "insert"
    /\ UNCHANGED <<numVars, geomVars, searchVars, overflow_checks, res>>

\* lines 29-39
Contains(str) ==
    /\ query' = str
    /\ found' = contains(trie, str)
    /\ pc' = "contains"
    /\ UNCHANGED <<numVars, geomVars, searchVars, overflow_checks, res, trie, inserted>>

\* lines 41-51
StartsWith(prefix) ==
    /\ query' = prefix
    /\ found' = starts_with(trie, prefix)
    /\ pc' = "starts_with"
    /\ UNCHANGED <<numVars, geomVars, searchVars, overflow_checks, res, trie, inserted>>

NextTrie ==
    \E str \in TrieStrings : Insert(str) \/ Contains(str) \/ StartsWith(str)

SpecTrie == InitTrie /\ [][NextTrie]_vars

\* -------------------------------------------------------- src/doubling.rs
\* the number of binary digits of x
RECURSIVE BitLen(_)
BitLen(x) == IF x = 0 THEN 0 ELSE 1 + BitLen(x \div 2)

\* line 6, `k as f64`: the nearest float, ties to the even significand
as_f64(x) ==
    IF BitLen(x) <= MantissaBits THEN x
    ELSE LET unit == Pow2(BitLen(x) - MantissaBits)
             q == x \div unit
             r == x % unit
         IN  IF 2 * r > unit \/ (2 * r = unit /\ q % 2 = 1)
             THEN (q + 1) * unit
             ELSE q * unit

\* line 6, log2().ceil() of a float x >= 1: the least m with x <= 2^m
RECURSIVE log2_ceil(_)
log2_ceil(x) == IF x <= 1 THEN 0 ELSE 1 + log2_ceil((x + 1) \div 2)

\* line 6: max_log; log2 of 0.0 is -inf, which `as usize` saturates to 0
max_log(k) == IF k = 0 THEN 0 ELSE log2_ceil(as_f64(k))

\* lines 7-17: the levels 0..i of doubling_table
RECURSIVE doubling_table(_, _)
doubling_table(nx, i) ==
    IF i = 0 THEN <<nx>>
    ELSE LET below == doubling_table(nx, i - 1)
             prev == below[i]
         IN  Append(below, [j \in 1..Len(nx) |-> At(prev, At(prev, j - 1))])

\* line 23, k >> i: a shift by the width or more is an overflow, which
\* panics under overflow checks and is taken modulo the width without them
usize_shr(x, i) ==
    IF i < CoordBits THEN WideOk(x \div Pow2(i))
    ELSE IF overflow_checks THEN WidePanic
    ELSE WideOk(x \div Pow2(i % CoordBits))

\* lines 22-28: the loop over the levels, from level i on; the call panics
\* on a shift overflow and on an index outside a level
RECURSIVE doubling_walk(_, _, _, _)
doubling_walk(table, k, i, current_node) ==
    IF i >= Len(table) THEN WideOk(current_node)
    ELSE LET shifted == usize_shr(k, i)
         IN  IF shifted.panicked THEN WidePanic
             ELSE IF shifted.val % 2 = 1
             THEN IF current_node < Len(At(table, i))
                  THEN doubling_walk(table, k, i + 1, At(At(table, i), current_node))
                  ELSE WidePanic
             ELSE doubling_walk(table, k, i + 1, current_node)

\* lines 4-29
doubling(nx, v, k) == doubling_walk(doubling_table(nx, max_log(k)), k, 0, v)

\* the successor maps of n vertices whose entries are valid indices
NextNodes(n) == [1..n -> 0..(n - 1)]

\* tests::test_doubling_chain
chain == <<1, 2, 3, 4, 0>>

InitDoubling ==
    /\ GeomIdle
    /\ SearchIdle
    /\ TrieIdle
    /\ overflow_checks \in BOOLEAN
    /\ pc = "call"
    /\ res = NoWide
    /\ \/ \E n \in 0..MaxVertices : next_nodes \in NextNodes(n)
       \/ next_nodes = chain
    /\ node0 \in 0..Len(next_nodes)
    /\ k_steps \in 0..USIZE_MAX
    /\ weight = << >>
    /\ nn = 0
    /\ b_cur = 0

Doubling ==
    /\ pc = "call"
    /\ res' = doubling(next_nodes, node0, k_steps)
    /\ pc' = "doubling"
    /\ UNCHANGED <<numVars, geomVars, searchVars, trieVars, overflow_checks>>

NextDoubling == Doubling

SpecDoubling == InitDoubling /\ [][NextDoubling]_vars

\* --------------------------------------------------- src/find_centroid.rs
\* line 43, weight_sum - subtree_weight[v]: a usize subtraction
UsizeSub(x, y) ==
    IF x >= y THEN WideOk(x - y)
    ELSE IF overflow_checks THEN WidePanic
    ELSE WideOk((x - y) % Pow2(CoordBits))

\* line 56, weight.iter().sum::<usize>(), from the i-th entry on
RECURSIVE usize_sum(_, _, _)
usize_sum(wt, i, acc) ==
    IF i > Len(wt) THEN WideOk(acc)
    ELSE LET sum == UsizeAdd(acc, wt[i])
         IN  IF sum.panicked THEN WidePanic ELSE usize_sum(wt, i + 1, sum.val)

\* lines 4-19: subtree_dfs, as the table it leaves in subtree_weight;
\* subtree_scan is the for loop of lines 12-17 from the i-th neighbour on
RECURSIVE subtree_dfs(_, _, _, _, _)
RECURSIVE subtree_scan(_, _, _, _, _, _)
subtree_scan(g, wt, sw, v, par, i) ==
    IF i > Len(At(g, v)) THEN [panicked |-> FALSE, val |-> sw]
    ELSE LET next_v == At(g, v)[i]
         IN  IF next_v = par THEN subtree_scan(g, wt, sw, v, par, i + 1)
             ELSE LET below == subtree_dfs(g, wt, sw, next_v, v)
                      sum == UsizeAdd(At(below.val, v), At(below.val, next_v))
                  IN  IF below.panicked \/ sum.panicked
                      THEN [panicked |-> TRUE, val |-> sw]
                      ELSE subtree_scan(g, wt, Put(below.val, v, sum.val), v, par, i + 1)

subtree_dfs(g, wt, sw, v, par) == subtree_scan(g, wt, Put(sw, v, At(wt, v)), v, par, 1)

\* lines 22-51: centroid_dfs; centroid_scan is the for loop of lines 31-42
\* from the i-th neighbour on
RECURSIVE centroid_dfs(_, _, _, _, _, _)
RECURSIVE centroid_scan(_, _, _, _, _, _, _, _)
centroid_scan(n, g, weight_sum, sw, v, par, i, is_centroid) ==
    IF i > Len(At(g, v))
    THEN LET rest == UsizeSub(weight_sum, At(sw, v))
         IN  IF rest.panicked THEN WidePanic
             ELSE IF is_centroid /\ ~(rest.val > weight_sum \div 2) THEN WideOk(v)
             ELSE WideOk(n)
    ELSE LET next_v == At(g, v)[i]
         IN  IF next_v = par
             THEN centroid_scan(n, g, weight_sum, sw, v, par, i + 1, is_centroid)
             ELSE LET r == centroid_dfs(n, g, weight_sum, sw, next_v, v)
                  IN  IF r.panicked \/ r.val # n THEN r
                      ELSE centroid_scan(n, g, weight_sum, sw, v, par, i + 1,
                               is_centroid /\ ~(At(sw, next_v) > weight_sum \div 2))

centroid_dfs(n, g, weight_sum, sw, v, par) ==
    centroid_scan(n, g, weight_sum, sw, v, par, 1, TRUE)

\* lines 54-61
find_centroid(g, wt) ==
    LET n == Len(g)
        weight_sum == usize_sum(wt, 1, 0)
        sw == subtree_dfs(g, wt, [k \in 1..n |-> 0], 0, n)
    IN  IF weight_sum.panicked \/ sw.panicked THEN WidePanic
        ELSE centroid_dfs(n, g, weight_sum.val, sw.val, 0, n)

\* the adjacency lists built by pushing each undirected edge on both ends
RECURSIVE TreeOf(_, _)
TreeOf(n, edges) ==
    IF edges = << >> THEN [k \in 1..n |-> << >>]
    ELSE LET g == TreeOf(n, SubSeq(edges, 1, Len(edges) - 1))
             e == edges[Len(edges)]
         IN  [g EXCEPT ![e[1] + 1] = Append(@, e[2]), ![e[2] + 1] = Append(@, e[1])]

\* the vertices reached from the vertices in seen without passing vertex cut
RECURSIVE Reach(_, _, _)
Reach(g, seen, cut) ==
    LET more == seen \cup {u \in VerticesOf(g) \ {cut} :
                              \E t \in seen : \E i \in 1..Len(At(g, t)) : At(g, t)[i] = u}
    IN  IF more = seen THEN seen ELSE Reach(g, more, cut)

\* the trees of n vertices: n - 1 edges that connect them all
Trees(n) ==
    {g \in {TreeOf(n, es) : es \in [1..(n - 1) -> {e \in (0..(n - 1)) \X (0..(n - 1)) : e[1] < e[2]}]} :
        Reach(g, {0}, n) = VerticesOf(g)}

Weights == 0..MaxWeight \cup {USIZE_MAX}

\* the tree of test case 6 of tests::test_find_centroid
complex_tree == <<<<1, 2, 3>>, <<0>>, <<0, 4>>, <<0>>, <<2, 5, 6>>, <<4>>, <<4>>>>

InitCentroid ==
    /\ GeomIdle
    /\ TrieIdle
    /\ overflow_checks \in BOOLEAN
    /\ pc = "call"
    /\ res = NoWide
    /\ \/ /\ \E n \in 1..MaxVertices : graph \in Trees(n)
          /\ weight \in [1..Len(graph) -> Weights]
       \/ /\ graph \in {create_graph, complex_tree}
          /\ weight = [k \in 1..Len(graph) |-> 1]
    /\ field = << >>
    /\ start = 0
    /\ dist = << >>
    /\ que = << >>
    /\ pq = << >>
    /\ deque = << >>
    /\ enq = << >>
    /\ next_nodes = << >>
    /\ node0 = 0
    /\ k_steps = 0
    /\ nn = 0
    /\ b_cur = 0

FindCentroid ==
    /\ pc = "call"
    /\ res' = find_centroid(graph, weight)
    /\ pc' = "find_centroid"
    /\ UNCHANGED <<numVars, geomVars, searchVars, trieVars, overflow_checks>>

NextCentroid == FindCentroid

SpecCentroid == InitCentroid /\ [][NextCentroid]_vars

\* -------------------------------------------------- src/sum_quotients.rs
\* u128 is twice as wide as usize
U128_MAX == Pow2(2 * CoordBits) - 1

\* lines 17-22 with len = rb - b: the last b of the block left out
sum_block_open(n, bq, acc) ==
    LET v == n \div bq
        rb == n \div v
        len == rb - bq
    IN  [res |-> acc + v * len, b |-> rb + 1]

\* lines 17-22: one block [b, rb] of equal quotients, as the values of res
\* and b after it (before the width of u128 is applied)
sum_block(n, bq, acc) ==
    LET v == n \div bq
        rb == n \div v
        len == rb - bq + 1
    IN  [res |-> acc + v * len, b |-> rb + 1]

InitSumQuotients ==
    /\ GeomIdle
    /\ SearchIdle
    /\ TrieIdle
    /\ overflow_checks \in BOOLEAN
    /\ pc = "call"
    /\ res = 0
    /\ nn \in 0..USIZE_MAX
    /\ b_cur = 0
    /\ next_nodes = << >>
    /\ node0 = 0
    /\ k_steps = 0
    /\ weight = << >>

\* lines 12-14
SumEnter ==
    /\ pc = "call"
    /\ res' = 0
    /\ b_cur' = 1
    /\ pc' = "sum_loop"
    /\ UNCHANGED <<geomVars, searchVars, trieVars, overflow_checks,
                   next_nodes, node0, k_steps, weight, nn>>

\* lines 16-23: one iteration of the while loop; res += v * len is u128
\* arithmetic, which panics on overflow under overflow checks and wraps
\* without them
SumVisit ==
    /\ pc = "sum_loop"
    /\ b_cur <= nn
    /\ LET after == sum_block(nn, b_cur, res)
       IN  IF after.res <= U128_MAX
           THEN /\ res' = after.res
                /\ b_cur' = after.b
                /\ pc' = pc
           ELSE IF overflow_checks
           THEN /\ pc' = "sum_panicked"
                /\ UNCHANGED <<res, b_cur>>
           ELSE /\ res' = after.res % (U128_MAX + 1)
                /\ b_cur' = after.b
                /\ pc' = pc
    /\ UNCHANGED <<geomVars, searchVars, trieVars, overflow_checks,
                   next_nodes, node0, k_steps, weight, nn>>

\* lines 16 and 25: b > nn, res is returned
SumReturn ==
    /\ pc = "sum_loop"
    /\ b_cur > nn
    /\ pc' = "sum_returned"
    /\ UNCHANGED <<numVars, geomVars, searchVars, trieVars, overflow_checks, res>>

NextSumQuotients == SumEnter \/ SumVisit \/ SumReturn

SpecSumQuotients == InitSumQuotients /\ [][NextSumQuotients]_vars

\* the call runs on: a loop iteration that can be taken is taken
FairSumQuotients == SpecSumQuotients /\ WF_vars(NextSumQuotients)

\* ------------------------------------------------------------ properties
Reverse(o) ==
    CASE o = "Less" -> "Greater"
      [] o = "Greater" -> "Less"
      [] o = "Equal" -> "Equal"

\* the points a claim about a strict order ranges over: no origin, unless the
\* policy is First or Last
InOrderDomain(p, o) == p # Origin \/ o.origin \in {"First", "Last"}

\* mathematical values, computed without any width
ExactCross(p, q) == p[1] * q[2] - p[2] * q[1]
ExactDot(p, q) == p[1] * q[1] + p[2] * q[2]
ExactNorm2(p) == p[1] * p[1] + p[2] * p[2]

\* C1: a comparison of two non-origin points returns Equal iff the points are
\* the same point; under First or Last a comparison involving the origin
\* returns Equal iff both points are the origin.
C1_EqualIffSamePoint ==
    pc = "cmp" =>
        /\ (a # Origin /\ b # Origin) => ((res = "Equal") <=> (a = b))
        /\ (opt.origin \in {"First", "Last"} /\ (a = Origin \/ b = Origin))
              => ((res = "Equal") <=> (a = Origin /\ b = Origin))

\* C2: antisymmetry, cmp(a, b) is an Ordering and is the reverse of cmp(b, a),
\* for non-origin points under every policy and for all points under First or
\* Last.
C2_Antisymmetric ==
    (pc = "cmp" /\ InOrderDomain(a, opt) /\ InOrderDomain(b, opt)) =>
        /\ res \in Ordering
        /\ cmp_by_argument_i64(b, a, opt) \in Ordering
        /\ res = Reverse(cmp_by_argument_i64(b, a, opt))

\* C3: transitivity, if cmp(a, b) is Less and cmp(b, c) is Less then
\* cmp(a, c) is Less, for non-origin points under every policy and for all
\* points under First or Last.
C3_Transitive ==
    (pc = "cmp" /\ res = "Less" /\ InOrderDomain(a, opt) /\ InOrderDomain(b, opt)) =>
        \A c \in Points :
            (InOrderDomain(c, opt) /\ cmp_by_argument_i64(b, c, opt) = "Less")
                => cmp_by_argument_i64(a, c, opt) = "Less"

\* C3 witness: a chain a < b < c of three points on one ray, decided by the
\* tie-break, whose last point has the largest coordinates of the type.
C3_Witness ==
    /\ pc = "cmp"
    /\ res = "Less"
    /\ a = <<1, 1>>
    /\ b = <<I64_MAX - 1, I64_MAX - 1>>
    /\ cmp_by_argument_i64(b, <<I64_MAX, I64_MAX>>, opt) = "Less"
    /\ cmp_by_argument_i64(a, <<I64_MAX, I64_MAX>>, opt) = "Less"

\* C4: under Forbid the call panics if and only if a or b is the origin.
C4_ForbidPanicsIffOrigin ==
    (pc = "cmp" /\ opt.origin = "Forbid") =>
        ((res \in Panics) <=> (a = Origin \/ b = Origin))

\* C5: under First or Last every call returns an Ordering, whatever the
\* coordinates.
C5_FirstLastNeverAbort ==
    (pc = "cmp" /\ opt.origin \in {"First", "Last"}) => res \in Ordering

\* C6: under First the origin is Less than every non-origin point, under Last
\* it is Greater, with the reverse result when the arguments are swapped, and
\* origin against origin is Equal; the tie-break and the other point do not
\* matter.
C6_OriginHandling ==
    (pc = "cmp" /\ opt.origin \in {"First", "Last"}) =>
        /\ (a = Origin /\ b # Origin) =>
              res = (IF opt.origin = "First" THEN "Less" ELSE "Greater")
        /\ (a # Origin /\ b = Origin) =>
              res = (IF opt.origin = "First" THEN "Greater" ELSE "Less")
        /\ (a = Origin /\ b = Origin) => res = "Equal"

\* C6 witness: the origin compared, under First, with the point of smallest
\* coordinates, and found Less.
C6_Witness ==
    /\ pc = "cmp"
    /\ opt.origin = "First"
    /\ a = Origin
    /\ b = <<I64_MIN, I64_MIN>>
    /\ res = "Less"

\* C7: under Norm2Asc two non-origin points of the same half-plane with
\* cross product 0 are ordered by the exact squared norm x*x + y*y.
C7_Norm2AscExact ==
    (/\ pc = "cmp"
     /\ opt.tie = "Norm2Asc"
     /\ a # Origin
     /\ b # Origin
     /\ upper_half(a[1], a[2]) = upper_half(b[1], b[2])
     /\ ExactCross(a, b) = 0)
        => res = int_cmp(ExactNorm2(a), ExactNorm2(b))

\* C8: cross and dot return the mathematical value for every four
\* coordinates, without overflow.
C8_CrossDotExact ==
    /\ pc = "cross" => wide = WideOk(ExactCross(a, b))
    /\ pc = "angle_cross" => wide = WideOk(ExactCross(a, b))
    /\ pc = "dot" => wide = WideOk(ExactDot(a, b))

\* the reference order of the test: the angle atan2(y, x), normalized to
\* [0, 2*pi), then the squared distance.  The angle of a non-origin point is
\* given by its quadrant (counted counter-clockwise from the positive x-axis)
\* and, inside a quadrant, by the tangent v / u of the point rotated back
\* into the first quadrant, in which atan2 increases.
RefQuadrant(p) ==
    CASE p[1] > 0 /\ p[2] >= 0 -> 0
      [] p[1] <= 0 /\ p[2] > 0 -> 1
      [] p[1] < 0 /\ p[2] <= 0 -> 2
      [] p[1] >= 0 /\ p[2] < 0 -> 3

RefRotated(p) ==
    CASE RefQuadrant(p) = 0 -> <<p[1], p[2]>>
      [] RefQuadrant(p) = 1 -> <<p[2], -p[1]>>
      [] RefQuadrant(p) = 2 -> <<-p[1], -p[2]>>
      [] RefQuadrant(p) = 3 -> <<-p[2], p[1]>>

RefAngleLess(p, q) ==
    \/ RefQuadrant(p) < RefQuadrant(q)
    \/ /\ RefQuadrant(p) = RefQuadrant(q)
       /\ RefRotated(p)[2] * RefRotated(q)[1] < RefRotated(q)[2] * RefRotated(p)[1]

RefLess(p, q) ==
    \/ RefAngleLess(p, q)
    \/ /\ ~RefAngleLess(q, p)
       /\ ExactNorm2(p) < ExactNorm2(q)

Range(s) == {s[i] : i \in 1..Len(s)}

IndexOf(s, x) == CHOOSE i \in 1..Len(s) : s[i] = x

\* C9: sorting the 48 non-origin points with |x| <= 3 and |y| <= 3 with the
\* default comparator returns, and yields the points in strictly increasing
\* reference order (angle in [0, 2*pi), then squared distance); (1,0), (0,1),
\* (-1,0), (0,-1) appear in that order.
C9_GridMatchesReference ==
    (pc = "sorted_default" /\ input = GridPts) =>
        /\ res = "Unit"
        /\ Len(pts) = Len(GridPts)
        /\ Range(pts) = Range(GridPts)
        /\ \A i \in 1..Len(pts) : \A j \in 1..Len(pts) :
              i < j => RefLess(pts[i], pts[j])
        /\ IndexOf(pts, <<1, 0>>) < IndexOf(pts, <<0, 1>>)
        /\ IndexOf(pts, <<0, 1>>) < IndexOf(pts, <<-1, 0>>)
        /\ IndexOf(pts, <<-1, 0>>) < IndexOf(pts, <<0, -1>>)

\* C9 witness: the grid has been sorted with the default comparator; it has
\* 48 points, starts with the nearest point of the positive x-axis and ends
\* with the farthest point of the last direction before a full turn.
C9_Witness ==
    /\ pc = "sorted_default"
    /\ input = GridPts
    /\ Len(pts) = 48
    /\ pts # input
    /\ pts[1] = <<1, 0>>
    /\ pts[48] = <<3, -1>>

PermutationsOf(s) ==
    {[i \in 1..Len(s) |-> s[f[i]]] : f \in Permutations(1..Len(s))}

\* C10: for a slice of non-origin points and any options, the sort returns,
\* sorting any permutation of the slice gives the same sequence, and sorting
\* the sorted sequence again leaves it unchanged.
C10_SortCanonical ==
    (/\ pc = "sorted"
     /\ to_xy = "deref"
     /\ Len(input) <= MaxLen
     /\ \A i \in 1..Len(input) : input[i] # Origin) =>
        /\ res = "Unit"
        /\ \A q \in PermutationsOf(input) :
              sort_by_argument_i64(q, Projection(to_xy), opt) = SortOk(pts)
        /\ sort_by_argument_i64(pts, Projection(to_xy), opt) = SortOk(pts)

\* the coordinates the sort driver sees for the element e
Coordinates(e) == Projection(to_xy)[e]

\* the options the sort that ran has used
UsedOptions == IF pc = "sorted_default" THEN ArgSortOptions_default ELSE opt

Occurrences(s, e) == Cardinality({i \in 1..Len(s) : s[i] = e})

IsPermutationOf(s, t) ==
    /\ Len(s) = Len(t)
    /\ \A e \in Range(s) \cup Range(t) : Occurrences(s, e) = Occurrences(t, e)

C12_OriginPlacement ==
    (/\ pc \in {"sorted", "sorted_default"}
     /\ UsedOptions.origin \in {"First", "Last"}
     /\ \E i \in 1..Len(input) : Coordinates(input[i]) = Origin) =>
        /\ res = "Unit"
        /\ \A i \in 1..Len(pts) : \A j \in 1..Len(pts) :
              (Coordinates(pts[i]) = Origin /\ Coordinates(pts[j]) # Origin) =>
                  IF UsedOptions.origin = "Last" THEN j < i ELSE i < j

\* C13: angle_between returns the literal 0, neither a value of atan2 nor a
\* panic, whenever a or b is the zero vector, whatever the other argument.
C13_ZeroVectorGivesZero ==
    (pc = "angle" /\ (a = Origin \/ b = Origin)) => angle = AngleZero

\* C13 witness: the zero vector against the vector of smallest coordinates,
\* whose dot product with itself overflows.
C13_Witness ==
    /\ pc = "angle"
    /\ a = Origin
    /\ b = <<I64_MIN, I64_MIN>>
    /\ angle = AngleZero

\* C14: for non-zero a and b, angle_between(a, b) and angle_between(b, a)
\* have the same outcome: the same pair (|cross|, dot) goes to atan2.
C14_AngleSymmetric ==
    (pc = "angle" /\ a # Origin /\ b # Origin) => angle = angle_between(b, a)

\* C14 witness: two different non-zero vectors with a negative cross product
\* in one order, whose pair (|cross|, dot) went to atan2.
C14_Witness ==
    /\ pc = "angle"
    /\ a = <<I64_MIN, 1>>
    /\ b = <<1, 2>>
    /\ ExactCross(a, b) < 0
    /\ angle = Atan2(-ExactCross(a, b), ExactDot(a, b))

\* the positive scalars a vector may be multiplied by
Scalars == 1..Pow2(CoordBits - 1)

Scaled(s, p) == <<s * p[1], s * p[2]>>

IsI64Point(p) == \A i \in 1..2 : p[i] >= I64_MIN /\ p[i] <= I64_MAX

\* C15: for non-zero a and b and positive scalars s and t with s*a and t*b
\* representable, angle_between(s*a, t*b) hands atan2 the pair of
\* angle_between(a, b) multiplied by s*t.
C15_ScaleInvariant ==
    (pc = "angle" /\ a # Origin /\ b # Origin) =>
        \A s \in Scalars : \A t \in Scalars :
            (IsI64Point(Scaled(s, a)) /\ IsI64Point(Scaled(t, b))) =>
                /\ angle.kind = "atan2"
                /\ angle_between(Scaled(s, a), Scaled(t, b))
                      = Atan2(s * t * angle.y, s * t * angle.x)

\* ------------------------------------------------------------ shortest paths
\* the cheapest walks of at most k more edges over the edges E = {<<u, v, cost>>},
\* starting from the table d of the nodes reached so far; a table that one
\* more edge does not change is final
RECURSIVE CheapestWalks(_, _, _)
CheapestWalks(E, d, k) ==
    IF k = 0 THEN d
    ELSE LET out == {e \in E : e[1] \in DOMAIN d}
             costs(v) == {d[e[1]] + e[3] : e \in {e \in out : e[2] = v}}
                             \cup (IF v \in DOMAIN d THEN {d[v]} ELSE {})
             nd == [v \in DOMAIN d \cup {e[2] : e \in out} |-> SetMin(costs(v))]
         IN  IF nd = d THEN d ELSE CheapestWalks(E, nd, k - 1)

\* the minimum total cost of a path from `from` to each node it reaches, by
\* definition: a cheapest path has fewer edges than there are nodes
MinCost(nodes, E, from) ==
    CheapestWalks(E, [v \in {from} |-> 0], Cardinality(nodes))

BfsEdges ==
    UNION {{<<u, At(graph, u)[i], 1>> : i \in 1..Len(At(graph, u))} :
           u \in VerticesOf(graph)}

BfsExpected ==
    LET m == MinCost(VerticesOf(graph), BfsEdges, start)
    IN  [k \in 1..Len(graph) |->
            IF k - 1 \in DOMAIN m THEN m[k - 1] ELSE bfs_inf]

\* C16: bfs(graph, s) returns for every vertex the minimum number of edges of
\* a path from s to it, and 1 << 30 for every vertex s does not reach; no vertex
\* is pushed more than once, and the loop ends: the call returns.
C16_BfsShortest ==
    /\ [](pc = "bfs_returned" => dist = BfsExpected)
    /\ [](\A k \in 1..Len(enq) : enq[k] <= 1)
    /\ <>(pc = "bfs_returned")

\* the disconnected graph of the tests: 0 and 1 reach each other, 2 and 3 are
\* never pushed and keep the sentinel
C16_Witness ==
    /\ pc = "bfs_returned"
    /\ graph = disconnected_graph
    /\ start = 0
    /\ dist = <<0, 1, bfs_inf, bfs_inf>>
    /\ enq = <<1, 1, 0, 0>>

DijkstraEdges ==
    UNION {{<<u, At(graph, u)[i][1], At(graph, u)[i][2]>> : i \in 1..Len(At(graph, u))} :
           u \in VerticesOf(graph)}

DijkstraMinCost == MinCost(VerticesOf(graph), DijkstraEdges, start)

DijkstraExpected ==
    [k \in 1..Len(graph) |->
        IF k - 1 \in DOMAIN DijkstraMinCost THEN DijkstraMinCost[k - 1]
        ELSE USIZE_MAX]

\* C17: dijkstra(graph, start) returns for every vertex the minimum total cost
\* of a path from start to it (0 for start), and usize::MAX for every vertex
\* start does not reach; the heap loop ends: the call returns. Stated for the
\* graphs whose minimum costs are all values of usize.
C17_DijkstraShortest ==
    /\ [](/\ pc \in {"dijkstra_returned", "dijkstra_panicked"}
          /\ \A v \in DOMAIN DijkstraMinCost : DijkstraMinCost[v] <= USIZE_MAX
          => /\ pc = "dijkstra_returned"
             /\ dist = DijkstraExpected)
    /\ <>(pc = "dijkstra_returned")

GridCells == (0..(h - 1)) \X (0..(w - 1))

\* a step to a 4-neighbour costs 1 when the cell entered is '#', else 0
GridSteps ==
    {<<z[1], z[2], IF Cell(field, z[2][1], z[2][2]) = "#" THEN 1 ELSE 0>> :
        z \in {t \in GridCells \X GridCells :
                  Abs(t[1][1] - t[2][1]) + Abs(t[1][2] - t[2][2]) = 1}}

ZeroOneExpected ==
    LET m == MinCost(GridCells, GridSteps, start)
    IN  [r \in 1..h |-> [c \in 1..w |-> m[<<r - 1, c - 1>>]]]

\* C18: zero_one_bfs(field, h, w, start) returns for every cell the minimum,
\* over the 4-neighbour paths from start to it, of the number of '#' cells the
\* path enters (the start cell costs nothing); the deque loop ends: the call
\* returns.
C18_ZeroOneFewestWalls ==
    /\ [](pc = "zero_one_returned" => dist = ZeroOneExpected)
    /\ <>(pc = "zero_one_returned")

\* the field of the tests from (0, 5), with the table the test expects
C18_Witness ==
    /\ pc = "zero_one_returned"
    /\ field = test_field
    /\ start = <<0, 5>>
    /\ dist = << <<0, 0, 0, 0, 0, 0>>,
                 <<1, 1, 1, 0, 0, 0>>,
                 <<2, 2, 1, 0, 0, 0>>,
                 <<3, 3, 2, 1, 1, 1>>,
                 <<2, 2, 2, 2, 2, 2>>,
                 <<2, 2, 3, 3, 3, 3>> >>

\* -------------------------------------------------------------------- Trie
IsPrefixOf(p, str) == Len(p) <= Len(str) /\ SubSeq(str, 1, Len(p)) = p

\* C19: after any sequence of insert calls on a new Trie, contains(s) is true
\* if and only if s is one of the inserted strings: a proper prefix or an
\* extension of an inserted string is not contained unless it was inserted too.
C19_ContainsIffInserted ==
    pc = "contains" => (found <=> query \in inserted)

\* "a" is a proper prefix of the inserted "az" and is not contained, though
\* the walk reaches its node
C19_Witness ==
    /\ pc = "contains"
    /\ inserted = {<<ByteA, ByteZ>>, <<ByteZ>>}
    /\ query = <<ByteA>>
    /\ found = FALSE

\* C20 as stated: after any sequence of insert calls (including none) on a new
\* Trie, starts_with(p) is true if and only if p is a prefix of at least one
\* inserted string.
C20_StartsWithIffPrefix ==
    pc = "starts_with" =>
        (found <=> \E str \in inserted : IsPrefixOf(query, str))

\* C20 as amended: starts_with(p) is true if and only if p is empty or p is a
\* prefix of at least one inserted string.
C20_StartsWithPrefixOrEmpty ==
    pc = "starts_with" =>
        (found <=> (query = << >> \/ \E str \in inserted : IsPrefixOf(query, str)))

\* "a" is a prefix of the inserted "az" only, and is not itself inserted
C20_Witness ==
    /\ pc = "starts_with"
    /\ inserted = {<<ByteA, ByteZ>>, <<ByteZ>>, << >>}
    /\ query = <<ByteA>>
    /\ found = TRUE

\* ---------------------------------------------------------------- doubling
\* the vertex reached from v by k applications of the successor map
RECURSIVE Iterate(_, _, _)
Iterate(nx, v, k) == IF k = 0 THEN v ELSE Iterate(nx, At(nx, v), k - 1)

\* C21: doubling(next_nodes, node, k) returns the vertex reached from node
\* after exactly k applications of next_nodes, for every k >= 0 and every
\* map with valid entries (node being a vertex of the map)
C21_DoublingIterates ==
    (pc = "doubling" /\ node0 < Len(next_nodes))
        => res = WideOk(Iterate(next_nodes, node0, k_steps))

\* ---------------------------------------------------------------- centroid
RECURSIVE SumOver(_, _)
SumOver(wt, S) ==
    IF S = {} THEN 0
    ELSE LET x == CHOOSE x \in S : TRUE IN At(wt, x) + SumOver(wt, S \ {x})

\* the connected components left when vertex v is removed
ComponentsWithout(g, v) == {Reach(g, {u}, v) : u \in VerticesOf(g) \ {v}}

\* v is a vertex whose removal leaves only components of at most half the
\* total weight
IsCentroid(g, wt, v) ==
    /\ v \in VerticesOf(g)
    /\ \A comp \in ComponentsWithout(g, v) :
           SumOver(wt, comp) <= SumOver(wt, VerticesOf(g)) \div 2

\* C22: find_centroid(graph, weight) returns, for every tree and all
\* non-negative weights, a vertex whose removal leaves only components of
\* weight at most weight_sum / 2; it never returns the not-found value n
C22_CentroidFound ==
    pc = "find_centroid" => ~res.panicked /\ IsCentroid(graph, weight, res.val)

\* ----------------------------------------------------------- sum_quotients
\* tests::naive_sum, the sum of floor(n / b) over b = from..n
RECURSIVE NaiveSum(_, _)
NaiveSum(n, from) == IF from > n THEN 0 ELSE n \div from + NaiveSum(n, from + 1)

\* C23: sum_quotients(n) equals the naive sum of floor(n / b) over b = 1..n
\* for every n >= 0 (0 for n = 0); b strictly increases in every iteration
\* of the loop, and the call returns
C23_SumQuotientsNaive ==
    /\ [](pc = "sum_returned" => res = NaiveSum(nn, 1))
    /\ [][pc = "sum_loop" /\ pc' = "sum_loop" => b_cur' > b_cur]_vars
    /\ <>(pc = "sum_returned")

\* the call for 10 returned 27, after blocks of more than one b
C23_Witness == pc = "sum_returned" /\ nn = 10 /\ res = 27 /\ b_cur = 11

\* ------------------------------------------------- the steps of the comparator
\* the half-plane split as the specification words it
InUpperHalf(p) == p[2] > 0 \/ (p[2] = 0 /\ p[1] >= 0)

\* C24: a non-origin point is upper iff y > 0 or (y = 0 and x >= 0); for two
\* non-origin points in different halves the comparator returns Less when
\* the first is upper and Greater when the first is lower, whatever the
\* cross product and the options
C24_HalfPlaneFirst ==
    (pc = "cmp" /\ a # Origin /\ b # Origin /\ InUpperHalf(a) # InUpperHalf(b))
        => res = IF InUpperHalf(a) THEN "Less" ELSE "Greater"

\* an upper point compared with a lower one that the cross product alone
\* would put first
C24_Witness ==
    /\ pc = "cmp"
    /\ a = <<1, 1>>
    /\ b = <<-1, -2>>
    /\ ExactCross(a, b) < 0
    /\ res = "Less"

\* C25: for two non-origin points the code puts in the same half, the
\* comparator returns Less when cross(a, b) > 0 and Greater when
\* cross(a, b) < 0; the tie-break is left for cross(a, b) = 0, and there the
\* two points lie in the same direction, never in opposite ones
C25_SameHalfByCross ==
    (/\ pc = "cmp"
     /\ a # Origin
     /\ b # Origin
     /\ upper_half(a[1], a[2]) = upper_half(b[1], b[2]))
        => /\ ExactCross(a, b) > 0 => res = "Less"
           /\ ExactCross(a, b) < 0 => res = "Greater"
           /\ ExactCross(a, b) = 0 => ExactDot(a, b) > 0

\* two points of the lower half, the first clockwise-before the second
C25_Witness ==
    /\ pc = "cmp"
    /\ a = <<-1, -1>>
    /\ b = <<1, -2>>
    /\ ExactCross(a, b) > 0
    /\ res = "Less"

\* C26: for two non-origin points in the same direction (same half-plane and
\* cross(a, b) = 0) the comparator under TieBreak::Lex returns the
\* lexicographic comparison of (a.x, a.y) with (b.x, b.y)
C26_LexTieBreak ==
    (/\ pc = "cmp"
     /\ opt.tie = "Lex"
     /\ a # Origin
     /\ b # Origin
     /\ InUpperHalf(a) = InUpperHalf(b)
     /\ ExactCross(a, b) = 0)
        => res = IF a[1] < b[1] \/ (a[1] = b[1] /\ a[2] < b[2]) THEN "Less"
                 ELSE IF a = b THEN "Equal"
                 ELSE "Greater"

\* same direction, the nearer point last in the lexicographic order
C26_Witness ==
    /\ pc = "cmp"
    /\ opt.tie = "Lex"
    /\ a = <<-1, 1>>
    /\ b = <<-2, 2>>
    /\ res = "Greater"

====
